---- MODULE Spec2Model ----
(***************************************************************************)
(* pymk: a small build system.  The model follows src/pymk/internal.py:    *)
(* the node classes (Target, PhonyTarget, Path), the variable              *)
(* substitution of expand_cmd, the staleness check up_to_date, the graph   *)
(* walk of build_execution_dag and the coordinator of TargetExecutor.      *)
(*                                                                         *)
(* Text is a sequence of one-character strings.  A dict is a sequence of   *)
(* records [name, deps] with distinct names, in insertion order.  None is  *)
(* the empty sequence and a present value v is <<v>>.                      *)
(***************************************************************************)
EXTENDS Integers, Sequences, FiniteSets, TLC

\* ---------------------------------------------------------------- bounds
\* Longest dependency list of one node.
MaxDeps == 2
\* Most dependency occurrences in one graph.
MaxEdges == 3
\* Latest modification time a command can stamp on its output.
MaxTime == 2
\* Longest command template drawn from the whole alphabet.
MaxLen == 4
MaxPops == 8

\* ------------------------------------------------------------ data model
\* The objects of a build description.  "f" is a pathlib.Path (equal by
\* value), "a" and "b" are Target objects, "x" and "y" PhonyTarget objects
\* (both classes define no __eq__/__hash__: equal by object identity).
PathNodes == {"f"}
TargetNodes == {"a", "b"}
PhonyNodes == {"x", "y"}
Nodes == PathNodes \cup TargetNodes \cup PhonyNodes

\* File names an output can have.
OutputPaths == {"p", "q"}
Files == PathNodes \cup OutputPaths

IsPath(t) == t \in PathNodes
IsTarget(t) == t \in TargetNodes
IsPhony(t) == t \in PhonyNodes

VARIABLES
  depends,         \* node -> dict of dependency groups (Target.depends, PhonyTarget.depends)
  cmd,             \* node -> None or the command template
  output,          \* Target -> file name of its output
  variables,       \* the global VARIABLES store: name -> value
  targets,         \* the list of PhonyTargets given to run
  jobs,            \* the jobs argument of run
  fs,              \* the file system: file -> modification time, 0 when absent
  now,             \* the clock that stamps written files
  pc,              \* where the coordinator is in run/execute
  dependants,      \* TargetExecutor.dependants
  leafs,           \* the leaf list of execute, and the index of the next leaf
  deps_left,       \* TargetExecutor.deps_left
  modified_times,  \* TargetExecutor.modified_times
  pool,            \* every Future submitted to the ThreadPoolExecutor, in order
  futures,         \* TargetExecutor.futures (indices into pool)
  done,            \* the done set of the current concurrent.futures.wait
  err,             \* the exception travelling out of execute, if any
  status,          \* the value run returned, if it returned
  finished,        \* node -> how many times on_finished passed its check for it
  res,             \* the result of the last expand_cmd call made on its own
  ARGS,            \* the parsed command line: variables (-D), targets, print_help, error
  registered,      \* the list of PhonyTargets given to main
  name,            \* PhonyTarget -> its name
  kwargs,          \* the keyword arguments of the last set_variable call, if any
  walk             \* build_execution_dag's locals while it is followed step by step

vars == <<depends, cmd, output, variables, targets, jobs, fs, now, pc,
          dependants, leafs, deps_left, modified_times, pool, futures, done,
          err, status, finished, res, ARGS, registered, name, kwargs, walk>>

None == <<>>
Some(v) == <<v>>

\* ------------------------------------------------------------------ text
\* The characters \w matches among the characters of the model.
WordChars == {"A", "B", "G", "O", "U", "T", "P", "_", "a", "f", "p", "q", "x", "y"}
IsWord(c) == c \in WordChars

RECURSIVE Join(_)
\* ' '.join(texts)
Join(texts) ==
  IF texts = <<>> THEN <<>>
  ELSE IF Len(texts) = 1 THEN texts[1]
  ELSE texts[1] \o <<" ">> \o Join(Tail(texts))

\* str(x) of a dependency: Target.__str__ is str(output), PhonyTarget.__str__
\* is its name, a Path prints its path.
Str(x) == IF IsTarget(x) THEN <<output[x]>> ELSE IF IsPhony(x) THEN <<name[x]>> ELSE <<x>>

\* '__pymk_default_key__', the group name of a dependency list given bare.
DefaultKey == <<"_", "_">>

\* simplify_dependency_input: None was replaced by {} by the constructors,
\* a dict keeps its keys in order with each value made a list, anything
\* else becomes one group under the default key.
simplify_dependency_input(in) ==
  IF in.form = "dict"
  THEN [i \in DOMAIN in.items |->
          [name |-> in.items[i].name,
           deps |-> IF in.items[i].one THEN <<in.items[i].dep>> ELSE in.items[i].deps]]
  ELSE <<[name |-> DefaultKey,
          deps |-> IF in.form = "one" THEN <<in.dep>> ELSE in.deps]>>

\* Target.__init__ / PhonyTarget.__init__: depends=None means no groups.
NodeDepends(in) == IF in.form = "none" THEN <<>> ELSE simplify_dependency_input(in)

HasGroup(t, var) == \E i \in DOMAIN depends[t] : depends[t][i].name = var
Group(t, var) == depends[t][CHOOSE i \in DOMAIN depends[t] : depends[t][i].name = var].deps

RECURSIVE Flatten(_)
\* The dependencies of all groups, in the order the nested loops
\* "for dependencies in t.depends.values(): for dep in dependencies" meet them.
Flatten(d) == IF d = <<>> THEN <<>> ELSE d[1].deps \o Flatten(Tail(d))

AllDeps(t) == IF IsPath(t) THEN <<>> ELSE Flatten(depends[t])

Range(s) == {s[i] : i \in DOMAIN s}

\* ------------------------------------------------------ variable store
\* set_variable as VARIABLES.update(kw): every name of kw is written.
set_variable_update(kw) ==
  [k \in DOMAIN variables \cup DOMAIN kw |-> IF k \in DOMAIN kw THEN kw[k] ELSE variables[k]]

\* The store as set_variable(**kw) leaves it.
\* A name given with -D keeps its value; every other name of kw is written.
set_variable(kw) ==
  [k \in DOMAIN variables \cup (DOMAIN kw \ DOMAIN ARGS.variables) |->
     IF k \in DOMAIN kw /\ k \notin DOMAIN ARGS.variables THEN kw[k] ELSE variables[k]]

\* ------------------------------------------------- variable substitution
RECURSIVE WordRun(_, _)
\* How many word characters s holds from position i on: the greedy \w+.
WordRun(s, i) ==
  IF i <= Len(s) /\ IsWord(s[i]) THEN 1 + WordRun(s, i + 1) ELSE 0

\* The pattern without the bracketed alternatives, \$(\$|\w+).
VAR_SUBST_REGEX_bare(s, i) ==
  LET n == WordRun(s, i + 1)
  IN  IF i + 1 > Len(s) THEN 0
      ELSE IF s[i + 1] = "$" THEN 1
      ELSE n

\* VAR_SUBST_REGEX = \$(\$|\w+|\(\w+\)|{\w+}) tried at a "$" at position i:
\* the length of group 1, or 0 when the pattern does not match there.  The
\* alternatives are tried in order; \w+ is greedy and a bracketed name
\* must be closed by its own bracket right after the run of word characters.
VAR_SUBST_REGEX(s, i) ==
  LET n == WordRun(s, i + 1)
      m == WordRun(s, i + 2)
  IN  IF i + 1 > Len(s) THEN 0
      ELSE IF s[i + 1] = "$" THEN 1
      ELSE IF n > 0 THEN n
      ELSE IF s[i + 1] = "(" /\ m > 0 /\ i + 2 + m <= Len(s) /\ s[i + 2 + m] = ")" THEN m + 2
      ELSE IF s[i + 1] = "{" /\ m > 0 /\ i + 2 + m <= Len(s) /\ s[i + 2 + m] = "}" THEN m + 2
      ELSE 0

\* ''.join(c for c in m.group(1) if c not in '(){}')
StripBrackets(g) == SelectSeq(g, LAMBDA c : c \notin {"(", ")", "{", "}"})

\* A value get_variable returns, and the PymkException it raises instead.
Value(text) == [ok |-> TRUE, text |-> text]
Unset(var) == [ok |-> FALSE, text |-> var]

OUTPUT == <<"O", "U", "T", "P", "U", "T">>

\* get_variable with the store consulted before the node's groups.
get_variable_store_first(t, var) ==
  IF var = <<"$">> THEN Value(<<"$">>)
  ELSE IF var = OUTPUT /\ IsTarget(t) THEN Value(Str(t))
  ELSE IF var \in DOMAIN variables THEN Value(variables[var])
  ELSE IF HasGroup(t, var)
       THEN Value(Join([i \in DOMAIN Group(t, var) |-> Str(Group(t, var)[i])]))
  ELSE Unset(var)

\* get_variable with an unknown name expanding to the empty text.
get_variable_lenient(t, var) ==
  IF var = <<"$">> THEN Value(<<"$">>)
  ELSE IF var = OUTPUT /\ IsTarget(t) THEN Value(Str(t))
  ELSE IF HasGroup(t, var)
       THEN Value(Join([i \in DOMAIN Group(t, var) |-> Str(Group(t, var)[i])]))
  ELSE IF var \in DOMAIN variables THEN Value(variables[var])
  ELSE Value(<<>>)

\* The get_variable closure of expand_cmd, for the name var of node t.
get_variable(t, var) ==
  IF var = <<"$">> THEN Value(<<"$">>)
  ELSE IF var = OUTPUT /\ IsTarget(t) THEN Value(Str(t))
  ELSE IF HasGroup(t, var)
       THEN Value(Join([i \in DOMAIN Group(t, var) |-> Str(Group(t, var)[i])]))
  ELSE IF var \in DOMAIN variables THEN Value(variables[var])
  ELSE Unset(var)

RECURSIVE Sub(_, _, _)
\* VAR_SUBST_REGEX.sub(get_variable, s) from position i on: matches are
\* replaced left to right, text between them is kept, and the first
\* exception ends the substitution.
Sub(t, s, i) ==
  IF i > Len(s) THEN Value(<<>>)
  ELSE LET m == IF s[i] = "$" THEN VAR_SUBST_REGEX(s, i) ELSE 0
       IN  IF m = 0
           THEN LET rest == Sub(t, s, i + 1)
                IN  IF rest.ok THEN Value(<<s[i]>> \o rest.text) ELSE rest
           ELSE LET v == get_variable(t, StripBrackets(SubSeq(s, i + 1, i + m)))
                IN  IF ~v.ok THEN v
                    ELSE LET rest == Sub(t, s, i + m + 1)
                         IN  IF rest.ok THEN Value(v.text \o rest.text) ELSE rest

\* expand_cmd(t) on the template text s of node t.
ExpandText(t, s) == Sub(t, s, 1)

\* expand_cmd(t); "assert t.cmd" holds wherever it is called.
expand_cmd(t) == ExpandText(t, cmd[t][1])

\* ------------------------------------------------------------- staleness
\* The file modified_time(t) stats: the path itself, or a Target's output.
FileOf(t) == IF IsTarget(t) THEN output[t] ELSE t

\* modified_time(t): st_mtime_ns, with 0 standing for FileNotFoundError.
modified_time(t) == fs[FileOf(t)]

RECURSIVE DepsNotOlder(_, _, _, _)
\* up_to_date's loops with the comparison time >= mtime: an equal
\* timestamp counts as newer.
DepsNotOlder(deps, i, mt, mtime) ==
  IF i > Len(deps) THEN "True"
  ELSE IF IsPhony(deps[i]) THEN "False"
  ELSE IF deps[i] \notin DOMAIN mt THEN "KeyError"
  ELSE IF mt[deps[i]] >= mtime THEN "False"
  ELSE DepsNotOlder(deps, i + 1, mt, mtime)

RECURSIVE DepsNotNewer(_, _, _, _)
\* The nested loops of up_to_date from the i-th dependency on: "False" at
\* the first PhonyTarget or newer dependency, "KeyError" when
\* modified_times has no entry for a dependency, "True" at the end.
DepsNotNewer(deps, i, mt, mtime) ==
  IF i > Len(deps) THEN "True"
  ELSE IF IsPhony(deps[i]) THEN "False"
  ELSE IF deps[i] \notin DOMAIN mt THEN "KeyError"
  ELSE IF mt[deps[i]] > mtime THEN "False"
  ELSE DepsNotNewer(deps, i + 1, mt, mtime)

\* up_to_date(t, modified_times): its value, and modified_times as it
\* leaves it (the output's time is stored before the dependencies are read).
up_to_date(t, mt) ==
  IF modified_time(t) = 0 THEN [val |-> "False", mt |-> mt]
  ELSE LET mt1 == (t :> modified_time(t)) @@ mt
       IN  [val |-> DepsNotNewer(AllDeps(t), 1, mt1, modified_time(t)), mt |-> mt1]

\* ------------------------------------------------------ dependency graph
RECURSIVE VisitEvery(_, _, _, _)
\* The inner loops without the test on the visited set: every dependency
\* occurrence is queued.
VisitEvery(t, deps, i, st) ==
  IF i > Len(deps) THEN st
  ELSE LET target == deps[i]
       IN  VisitEvery(t, deps, i + 1,
                      [st EXCEPT
                         !.dag = IF target \in DOMAIN @ THEN [@ EXCEPT ![target] = Append(@, t)]
                                 ELSE (target :> <<t>>) @@ @,
                         !.seen = @ \cup {target},
                         !.q = Append(@, target)])

RECURSIVE Visit(_, _, _, _)
\* The inner loops of build_execution_dag for node t, from its i-th
\* dependency on: t is appended to dag[target] every time, target is
\* queued the first time it is seen.
Visit(t, deps, i, st) ==
  IF i > Len(deps) THEN st
  ELSE LET target == deps[i]
       IN  Visit(t, deps, i + 1,
                 [st EXCEPT
                    !.dag = IF target \in DOMAIN @ THEN [@ EXCEPT ![target] = Append(@, t)]
                            ELSE (target :> <<t>>) @@ @,
                    !.seen = @ \cup {target},
                    !.q = IF target \in st.seen THEN @ ELSE Append(@, target)])

\* One turn of the "while q" loop: q.pop() takes the last element; a Path
\* or a node whose depends dict is empty is a leaf, any other node is
\* expanded.
WalkStep(st) ==
  LET t == st.q[Len(st.q)]
      rest == [st EXCEPT !.q = SubSeq(@, 1, Len(@) - 1)]
  IN  IF IsPath(t) \/ depends[t] = <<>>
      THEN [rest EXCEPT !.leafs = Append(@, t)]
      ELSE Visit(t, AllDeps(t), 1, rest)

RECURSIVE Walk(_)
\* The "while q" loop.
Walk(st) == IF st.q = <<>> THEN st ELSE Walk(WalkStep(st))

\* build_execution_dag(targets): the reverse index and the leaf list.
build_execution_dag(ts) ==
  LET st == Walk([q |-> ts, dag |-> <<>>, seen |-> {}, leafs |-> <<>>])
  IN  [dag |-> st.dag, leafs |-> st.leafs]

\* ----------------------------------------------------------- coordinator
\* The exceptions of the program.
PymkException(kind, t, var) == [kind |-> kind, node |-> t, var |-> var]

\* The coordinator's state as one value S, so that the mutually recursive
\* methods of TargetExecutor can be written as functions of it.  S.err is
\* the exception being raised: once it is set every method returns at once.
Coordinator ==
  [pool |-> pool, futures |-> futures, deps_left |-> deps_left,
   modified_times |-> modified_times, finished |-> finished, err |-> err]

\* A new Future: its node, its state, the text print(cmd) wrote, whether
\* the command created the output, the exception it holds, and the
\* dependencies of the node that had not finished when it was submitted.
NewFuture(S, t) ==
  [t |-> t, st |-> "pending", printed |-> None, made |-> FALSE, exc |-> None,
   unfinished |-> {d \in Range(AllDeps(t)) : S.finished[d] = 0}]

\* exec_command(t): submit execute_target_command(t) and keep its Future.
exec_command(S, t) ==
  [S EXCEPT !.pool = Append(@, NewFuture(S, t)),
            !.futures = @ \cup {Len(S.pool) + 1}]

\* sum(len(x) for x in dependant.depends.values())
TotalDeps(t) == Len(AllDeps(t))

RECURSIVE on_finished(_, _), run_target(_, _), Propagate(_, _, _)

\* The "for dependant in self.dependants.get(t, [])" loop of on_finished,
\* from the i-th dependant on.
Propagate(S, list, i) ==
  IF S.err # None \/ i > Len(list) THEN S
  ELSE LET dependant == list[i]
           left == (IF dependant \in DOMAIN S.deps_left THEN S.deps_left[dependant]
                    ELSE TotalDeps(dependant)) - 1
           S1 == [S EXCEPT !.deps_left = (dependant :> left) @@ @]
       IN  Propagate(IF left = 0 THEN run_target(S1, dependant) ELSE S1, list, i + 1)

\* on_finished without the existence check: a missing file is recorded
\* with no time and the node is counted off like any other.
on_finished_unchecked(S, t) ==
  IF S.err # None THEN S
  ELSE LET S1 == [S EXCEPT
                    !.modified_times = IF IsPhony(t) THEN @ ELSE (t :> modified_time(t)) @@ @,
                    !.finished[t] = @ + 1]
       IN  Propagate(S1, IF t \in DOMAIN dependants THEN dependants[t] ELSE <<>>, 1)

\* on_finished(t): record the file's time (a missing file is an error),
\* then count t off for each of its dependants.
on_finished(S, t) ==
  IF S.err # None THEN S
  ELSE IF ~IsPhony(t) /\ modified_time(t) = 0
  THEN [S EXCEPT !.err = Some(PymkException("Expected", t, <<>>))]
  ELSE LET S1 == [S EXCEPT
                    !.modified_times = IF IsPhony(t) THEN @ ELSE (t :> modified_time(t)) @@ @,
                    !.finished[t] = @ + 1]
       IN  Propagate(S1, IF t \in DOMAIN dependants THEN dependants[t] ELSE <<>>, 1)

\* run_target(t): a Path must exist, a Target runs unless it is up to
\* date, a PhonyTarget runs if it has a command; what does not run is
\* finished at once.
run_target(S, t) ==
  IF S.err # None THEN S
  ELSE IF IsPath(t)
  THEN IF fs[t] = 0
       THEN [S EXCEPT !.err = Some(PymkException("NoFile", t, <<>>))]
       ELSE on_finished(S, t)
  ELSE IF IsTarget(t)
  THEN LET u == up_to_date(t, S.modified_times)
           S1 == [S EXCEPT !.modified_times = u.mt]
       IN  IF u.val = "KeyError"
           THEN [S1 EXCEPT !.err = Some(PymkException("KeyError", t, <<>>))]
           ELSE IF u.val = "False" THEN exec_command(S1, t)
           ELSE on_finished(S1, t)
  ELSE IF cmd[t] # None /\ cmd[t] # Some(<<>>) THEN exec_command(S, t)
  ELSE on_finished(S, t)

\* -------------------------------------------------------------- programs
\* The build descriptions and environments a run starts from.

\* Nodes are declared bottom-up, as Python builds them: a dependency is an
\* object that already exists, so the graphs drawn here are acyclic.
Lower(t) ==
  CASE t = "f" -> {}
    [] t = "y" -> {"f"}
    [] t = "a" -> {"f", "y"}
    [] t = "b" -> {"f", "y", "a"}
    [] t = "x" -> {"f", "y", "a", "b"}

DepLists(S, n) == UNION {[1..k -> S] : k \in 0..n}

\* The depends argument of a constructor: absent, one dependency, or a list.
DependencyInputs(S, n) ==
  {[form |-> "none"]} \cup {[form |-> "one", dep |-> d] : d \in S}
    \cup {[form |-> "seq", deps |-> l] : l \in DepLists(S, n)}

DependsOf(t, n) == {NodeDepends(in) : in \in DependencyInputs(Lower(t), n)}

Edges(g) == Len(Flatten(g["y"])) + Len(Flatten(g["a"])) + Len(Flatten(g["b"])) + Len(Flatten(g["x"]))

RECURSIVE ReachableIn(_, _)
\* The nodes reachable from the set S in graph g.
ReachableIn(g, S) ==
  LET T == S \cup UNION {Range(Flatten(g[t])) : t \in S}
  IN  IF T = S THEN S ELSE ReachableIn(g, T)

\* Graphs of at most e dependency occurrences with lists of at most n.
Graphs(n, e) ==
  {g \in {[f |-> <<>>, y |-> dy, a |-> da, b |-> db, x |-> dx] :
            dy \in DependsOf("y", n), da \in DependsOf("a", n),
            db \in DependsOf("b", n), dx \in DependsOf("x", n)} :
     Edges(g) <= e}

\* Command templates used in the runs: "$OUTPUT", "$A" and "$U".
CmdOutput == <<"$">> \o OUTPUT
CmdA == <<"$", "A">>
CmdU == <<"$", "U">>

\* The store of the runs: set_variable(A='a').
RunVariables == (<<"A">> :> <<"a">>)

\* What is not reachable from the requested targets takes no part in the
\* run; such nodes are left in one fixed form.
Plain(sc) ==
  LET R == ReachableIn(sc.depends, Range(sc.targets))
  IN  /\ \A t \in Nodes \ R : sc.depends[t] = <<>>
      /\ \A t \in PhonyNodes \ R : sc.cmd[t] = None
      /\ \A t \in TargetNodes \ R : sc.cmd[t] = Some(CmdOutput)
      /\ "b" \notin R => sc.output["b"] = "q"
      /\ \A file \in OutputPaths : (\A t \in TargetNodes \cap R : sc.output[t] # file) => sc.fs[file] = 0
      /\ "f" \notin R => sc.fs["f"] = 1

FreshFs == [file \in Files |-> IF file = "f" THEN 1 ELSE 0]

\* Family 1: every graph shape and target list, on a fresh build directory,
\* with and without commands on the aliases and with the two Targets
\* writing the same or different files.
ShapeScenarios ==
  {sc \in {[depends |-> g, targets |-> ts, output |-> [a |-> "p", b |-> ob],
            cmd |-> [f |-> None, a |-> Some(CmdOutput), b |-> Some(CmdOutput), x |-> cx, y |-> cy],
            fs |-> FreshFs, jobs |-> 0] :
             g \in Graphs(MaxDeps, MaxEdges),
             ts \in {<<"x">>, <<"x", "x">>, <<"x", "y">>, <<"y", "x">>},
             ob \in OutputPaths, cx \in {None, Some(CmdA)}, cy \in {None, Some(CmdA)}} :
     Plain(sc)}

\* Family 2: small graphs, with every state of the files, a Target whose
\* template may not resolve, and one or two worker threads.
StaleScenarios ==
  {sc \in {[depends |-> g, targets |-> ts, output |-> [a |-> "p", b |-> "q"],
            cmd |-> [f |-> None, a |-> Some(ca), b |-> Some(CmdOutput), x |-> None, y |-> cy],
            fs |-> files, jobs |-> j] :
             g \in Graphs(MaxDeps, MaxEdges - 1), ts \in {<<"x">>, <<"y", "x">>},
             files \in [Files -> 0..MaxTime], ca \in {CmdOutput, CmdU},
             cy \in {None, Some(CmdA)}, j \in {0, 1}} :
     Plain(sc)}

\* Family 3: small graphs under one alias, with every command template.
TemplateScenarios ==
  {sc \in {[depends |-> g, targets |-> <<"x">>, output |-> [a |-> "p", b |-> "q"],
            cmd |-> [f |-> None, a |-> Some(ca), b |-> Some(CmdOutput), x |-> cx, y |-> cy],
            fs |-> FreshFs, jobs |-> 0] :
             g \in Graphs(MaxDeps, MaxEdges - 1),
             ca \in {CmdOutput, CmdA, CmdU},
             cx \in {None, Some(CmdA), Some(CmdOutput)},
             cy \in {None, Some(<<>>), Some(CmdA), Some(CmdU)}} :
     Plain(sc)}

\* Family 4: a requested alias that is also a direct dependency of a
\* Target, with the outputs present or absent before the run.
SharedAliasScenarios ==
  {sc \in {[depends |-> g, targets |-> <<"y", "x">>, output |-> [a |-> "p", b |-> "q"],
            cmd |-> [f |-> None, a |-> Some(CmdOutput), b |-> Some(CmdOutput), x |-> None, y |-> None],
            fs |-> files, jobs |-> 0] :
             g \in Graphs(MaxDeps, MaxEdges), files \in [Files -> 0..1]} :
     /\ Plain(sc)
     /\ \E t \in TargetNodes \cap ReachableIn(sc.depends, {"x"}) : "y" \in Range(Flatten(sc.depends[t]))}

Scenarios ==
  ShapeScenarios \cup StaleScenarios \cup TemplateScenarios \cup SharedAliasScenarios

\* A command line without options or targets, main not used, and
\* PhonyTargets named after themselves.
NoArguments == [variables |-> <<>>, targets |-> <<>>, print_help |-> FALSE, error |-> None]
OwnNames == [t \in PhonyNodes |-> t]

Max(S) == CHOOSE m \in S : \A k \in S : k <= m

Init ==
  \E sc \in Scenarios :
    /\ depends = sc.depends
    /\ cmd = sc.cmd
    /\ output = sc.output
    /\ variables = RunVariables
    /\ targets = sc.targets
    /\ jobs = sc.jobs
    /\ fs = sc.fs
    /\ now = Max({1} \cup {sc.fs[file] : file \in Files})
    /\ pc = "start"
    /\ dependants = <<>>
    /\ leafs = <<>>
    /\ deps_left = <<>>
    /\ modified_times = <<>>
    /\ pool = <<>>
    /\ futures = {}
    /\ done = {}
    /\ err = None
    /\ status = None
    /\ finished = [t \in Nodes |-> 0]
    /\ res = None
    /\ ARGS = NoArguments
    /\ registered = <<>>
    /\ name = OwnNames
    /\ kwargs = None
    /\ walk = None

\* --------------------------------------------------------------- actions
\* Write the coordinator's state S back to the variables.
Store(S) ==
  /\ pool' = S.pool
  /\ futures' = S.futures
  /\ deps_left' = S.deps_left
  /\ modified_times' = S.modified_times
  /\ finished' = S.finished
  /\ err' = S.err

Config == <<depends, cmd, output, variables, targets, jobs, ARGS, registered, name, kwargs, walk>>

\* execute, up to the leaf loop: build the graph.
Execute ==
  /\ pc = "start"
  /\ LET r == build_execution_dag(targets)
     IN  /\ dependants' = r.dag
         /\ leafs' = r.leafs
         /\ pc' = IF r.leafs = <<>> THEN "wait" ELSE "leafs"
  /\ UNCHANGED <<Config, fs, now, deps_left, modified_times, pool, futures, done,
                 err, status, finished, res>>

\* One turn of "for leaf in leafs: self.run_target(leaf)".  An exception
\* leaves the with block, whose exit waits for the pool.
RunLeaf ==
  /\ pc = "leafs"
  /\ LET S == run_target(Coordinator, Head(leafs))
     IN  /\ Store(S)
         /\ leafs' = Tail(leafs)
         /\ pc' = IF S.err # None THEN "shutdown"
                  ELSE IF Tail(leafs) = <<>> THEN "wait" ELSE "leafs"
  /\ UNCHANGED <<Config, fs, now, dependants, done, status, res>>

Completed(i) == pool[i].st # "pending"

\* The work items a worker thread has taken: with max_workers = jobs > 0
\* the first jobs unfinished items of the FIFO work queue, and all of them
\* with jobs = 0 (the pool's default size exceeds the graphs drawn here).
Running(i) ==
  /\ i \in DOMAIN pool
  /\ ~Completed(i)
  /\ jobs > 0 => Cardinality({j \in 1..(i - 1) : ~Completed(j)}) < jobs

\* execute_target_command(t) in a worker, for the i-th Future: expand_cmd
\* may raise before anything is printed; otherwise the command is printed
\* and bash runs it.  A command is opaque: it may fail, and a Target's
\* command that succeeds may or may not write the output file.
Work(i) ==
  /\ Running(i)
  /\ LET t == pool[i].t
         e == expand_cmd(t)
     IN  IF ~e.ok
         THEN /\ pool' = [pool EXCEPT ![i].st = "raised",
                                      ![i].exc = Some(PymkException("Unset", t, e.text))]
              /\ UNCHANGED <<fs, now>>
         ELSE \/ /\ pool' = [pool EXCEPT ![i].st = "raised", ![i].printed = Some(e.text),
                                         ![i].exc = Some(PymkException("Failed", t, <<>>))]
                 /\ UNCHANGED <<fs, now>>
              \/ /\ pool' = [pool EXCEPT ![i].st = "returned", ![i].printed = Some(e.text)]
                 /\ UNCHANGED <<fs, now>>
              \/ /\ IsTarget(t)
                 /\ \E tm \in {now, now + 1} :
                      /\ tm <= MaxTime
                      /\ fs' = [fs EXCEPT ![output[t]] = tm]
                      /\ now' = tm
                 /\ pool' = [pool EXCEPT ![i].st = "returned", ![i].printed = Some(e.text),
                                         ![i].made = TRUE]
  /\ UNCHANGED <<Config, pc, dependants, leafs, deps_left, modified_times, futures,
                 done, err, status, finished, res>>

\* concurrent.futures.wait(self.futures, return_when=FIRST_COMPLETED):
\* blocks until a Future is complete and returns those that are.
Wait ==
  /\ pc = "wait"
  /\ \E i \in futures : Completed(i)
  /\ done' = {i \in futures : Completed(i)}
  /\ futures' = futures \ done'
  /\ pc' = "process"
  /\ UNCHANGED <<Config, fs, now, dependants, leafs, deps_left, modified_times, pool,
                 err, status, finished, res>>

\* One turn of "for f in done: self.on_finished(f.result())": a set is
\* iterated in no particular order; f.result() re-raises the worker's
\* exception.
Process ==
  /\ pc = "process"
  /\ \E i \in done :
       LET S == IF pool[i].exc # None THEN [Coordinator EXCEPT !.err = pool[i].exc]
                ELSE on_finished(Coordinator, pool[i].t)
       IN  /\ Store(S)
           /\ done' = done \ {i}
           /\ pc' = IF S.err # None THEN "shutdown"
                    ELSE IF done' = {} THEN "wait" ELSE "process"
  /\ UNCHANGED <<Config, fs, now, dependants, leafs, status, res>>

\* "while self.futures" ends, the with block exits and run returns 0.
Return ==
  /\ pc = "wait"
  /\ futures = {}
  /\ pc' = "done"
  /\ status' = Some(0)
  /\ UNCHANGED <<Config, fs, now, dependants, leafs, deps_left, modified_times, pool,
                 futures, done, err, finished, res>>

\* The exit of the with block without waiting for the pool, as
\* shutdown(wait=False) would leave it.
RaiseWithoutWaiting ==
  /\ pc = "shutdown"
  /\ IF err[1].kind = "KeyError"
     THEN pc' = "crashed" /\ UNCHANGED status
     ELSE pc' = "done" /\ status' = Some(1)
  /\ UNCHANGED <<Config, fs, now, dependants, leafs, deps_left, modified_times, pool,
                 futures, done, err, finished, res>>

\* An exception leaves the with block: ThreadPoolExecutor.__exit__ is
\* shutdown(wait=True), which returns when every submitted work item has
\* run.  run catches a PymkException and returns 1; a KeyError is not
\* caught and leaves run as a traceback.
Raise ==
  /\ pc = "shutdown"
  /\ \A i \in DOMAIN pool : Completed(i)
  /\ IF err[1].kind = "KeyError"
     THEN pc' = "crashed" /\ UNCHANGED status
     ELSE pc' = "done" /\ status' = Some(1)
  /\ UNCHANGED <<Config, fs, now, dependants, leafs, deps_left, modified_times, pool,
                 futures, done, err, finished, res>>

Next ==
  \/ Execute
  \/ RunLeaf
  \/ \E i \in DOMAIN pool : Work(i)
  \/ Wait
  \/ Process
  \/ Return
  \/ Raise

Spec == Init /\ [][Next]_vars

\* ------------------------------------------------------- cyclic graphs
\* Build descriptions whose depends dicts were changed after construction
\* so that the graph under the requested targets has a cycle.

\* t is on a cycle of graph g.
OnCycle(g, t) == t \in ReachableIn(g, Range(Flatten(g[t])))

CyclicGraphs(n, e) ==
  {g \in {[f |-> <<>>, y |-> dy, a |-> da, b |-> <<>>, x |-> dx] :
            dy \in {NodeDepends(in) : in \in DependencyInputs({"f", "a", "x", "y"}, n)},
            da \in {NodeDepends(in) : in \in DependencyInputs({"f", "x", "y"}, n)},
            dx \in {NodeDepends(in) : in \in DependencyInputs({"f", "a", "y", "x"}, n)}} :
     Edges(g) <= e}

CycleScenarios ==
  {sc \in {[depends |-> g, targets |-> ts, output |-> [a |-> "p", b |-> "q"],
            cmd |-> [f |-> None, a |-> Some(CmdOutput), b |-> Some(CmdOutput),
                     x |-> Some(CmdA), y |-> cy],
            fs |-> FreshFs, jobs |-> 0] :
             g \in CyclicGraphs(MaxDeps, MaxEdges), ts \in {<<"x">>, <<"y", "x">>},
             cy \in {None, Some(CmdA)}} :
     /\ Plain(sc)
     /\ \E t \in ReachableIn(sc.depends, Range(sc.targets)) : OnCycle(sc.depends, t)}

InitCycle ==
  \E sc \in CycleScenarios :
    /\ depends = sc.depends
    /\ cmd = sc.cmd
    /\ output = sc.output
    /\ variables = RunVariables
    /\ targets = sc.targets
    /\ jobs = sc.jobs
    /\ fs = sc.fs
    /\ now = 1
    /\ pc = "start"
    /\ dependants = <<>>
    /\ leafs = <<>>
    /\ deps_left = <<>>
    /\ modified_times = <<>>
    /\ pool = <<>>
    /\ futures = {}
    /\ done = {}
    /\ err = None
    /\ status = None
    /\ finished = [t \in Nodes |-> 0]
    /\ res = None
    /\ ARGS = NoArguments
    /\ registered = <<>>
    /\ name = OwnNames
    /\ kwargs = None
    /\ walk = None

SpecCycle == InitCycle /\ [][Next]_vars

\* ------------------------------------------------- expansion on its own
\* expand_cmd called on one node, for every template, every dependency
\* dict and every store within the bounds.

\* The characters templates are drawn from.
TemplateChars == {"$", "(", ")", "{", "}", "A", "/"}
Texts(n) == UNION {[1..k -> TemplateChars] : k \in 0..n}

NameA == <<"A">>
Bare(n) == <<"$">> \o n
Paren(n) == <<"$", "(">> \o n \o <<")">>
Brace(n) == <<"$", "{">> \o n \o <<"}">>

\* Stores: set_variable with any of A='a', OUTPUT='o'.
Stores ==
  {[n \in D |-> IF n = NameA THEN <<"a">> ELSE <<"o">>] : D \in SUBSET {NameA, OUTPUT}}

\* The dict form of the depends argument: up to two groups named A and
\* OUTPUT, each one dependency or a list.
DictItems(S, n) ==
  {[name |-> nm, one |-> TRUE, dep |-> d, deps |-> <<>>] : nm \in {NameA, OUTPUT}, d \in S}
    \cup {[name |-> nm, one |-> FALSE, dep |-> "f", deps |-> l] :
            nm \in {NameA, OUTPUT}, l \in DepLists(S, n)}

DictInputs(S, n) ==
  {[form |-> "dict", items |-> its] :
     its \in {<<>>} \cup {<<i1>> : i1 \in DictItems(S, n)}
               \cup {its2 \in {<<i1, i2>> : i1 \in DictItems(S, n), i2 \in DictItems(S, n)} :
                       its2[1].name # its2[2].name}}

ExpandDepends(n) ==
  {NodeDepends(in) : in \in DictInputs({"f", "b", "y"}, n) \cup DependencyInputs({"f", "b", "y"}, n)}

\* Family 1: every short template, on a Target and on an alias.
SyntaxCases ==
  {[t |-> t, cmd |-> s, depends |-> d, variables |-> v] :
     t \in {"a", "x"}, s \in Texts(MaxLen),
     d \in {<<>>, <<[name |-> NameA, deps |-> <<"f", "b">>]>>}, v \in Stores}

\* Family 2: one placeholder in each form, with every dict and store.
ResolutionCases ==
  {[t |-> t, cmd |-> s, depends |-> d, variables |-> v] :
     t \in {"a", "x"},
     s \in UNION {{Bare(n), Paren(n), Brace(n)} : n \in {NameA, OUTPUT, DefaultKey}},
     d \in ExpandDepends(MaxDeps), v \in Stores}

InitExpand ==
  \E c \in SyntaxCases \cup ResolutionCases :
    /\ depends = [t \in Nodes |-> IF t = c.t THEN c.depends ELSE <<>>]
    /\ cmd = [t \in Nodes |-> IF t = c.t THEN Some(c.cmd) ELSE None]
    /\ output = [a |-> "p", b |-> "q"]
    /\ variables = c.variables
    /\ targets = <<>>
    /\ jobs = 0
    /\ fs = FreshFs
    /\ now = 1
    /\ pc = "expand"
    /\ dependants = <<>>
    /\ leafs = <<>>
    /\ deps_left = <<>>
    /\ modified_times = <<>>
    /\ pool = <<>>
    /\ futures = {}
    /\ done = {}
    /\ err = None
    /\ status = None
    /\ finished = [t \in Nodes |-> 0]
    /\ res = None
    /\ ARGS = NoArguments
    /\ registered = <<>>
    /\ name = OwnNames
    /\ kwargs = None
    /\ walk = None

\* cmd = expand_cmd(t), the first statement of execute_target_command.
ExpandCommand ==
  /\ pc = "expand"
  /\ \E t \in Nodes :
       /\ cmd[t] # None
       /\ res' = Some(expand_cmd(t))
  /\ pc' = "expanded"
  /\ UNCHANGED <<Config, fs, now, dependants, leafs, deps_left, modified_times, pool,
                 futures, done, err, status, finished>>

NextExpand == ExpandCommand

SpecExpand == InitExpand /\ [][NextExpand]_vars

\* ---------------------------------------------------- the variable store
\* Module import with -D options on the command line, then any number of
\* set_variable calls of the build description.
NameB == <<"B">>
VariableNames == {NameA, NameB, OUTPUT}

\* -D NAME=e, or -D NAME (the empty value).
ArgumentVariables ==
  UNION {[D -> {<<"e">>, <<>>}] : D \in SUBSET VariableNames}

\* The keyword arguments of one set_variable call.
KeywordArguments ==
  UNION {[D -> {<<"a">>, <<"o">>}] : D \in SUBSET VariableNames}

\* ARGS = Arguments.parse(sys.argv[1:]); VARIABLES = a copy of ARGS.variables.
InitSetup ==
  \E v \in ArgumentVariables :
    /\ ARGS = [NoArguments EXCEPT !.variables = v]
    /\ variables = v
    /\ depends = [t \in Nodes |-> <<>>]
    /\ cmd = [t \in Nodes |-> None]
    /\ output = [a |-> "p", b |-> "q"]
    /\ targets = <<>>
    /\ jobs = 0
    /\ fs = FreshFs
    /\ now = 1
    /\ pc = "setup"
    /\ dependants = <<>>
    /\ leafs = <<>>
    /\ deps_left = <<>>
    /\ modified_times = <<>>
    /\ pool = <<>>
    /\ futures = {}
    /\ done = {}
    /\ err = None
    /\ status = None
    /\ finished = [t \in Nodes |-> 0]
    /\ res = None
    /\ registered = <<>>
    /\ name = OwnNames
    /\ kwargs = None
    /\ walk = None

\* One call set_variable(**kw).
SetVariable ==
  /\ pc = "setup"
  /\ \E kw \in KeywordArguments :
       /\ variables' = set_variable(kw)
       /\ kwargs' = Some(kw)
  /\ UNCHANGED <<depends, cmd, output, targets, jobs, ARGS, registered, name, walk, fs, now, pc,
                 dependants, leafs, deps_left, modified_times, pool, futures, done, err,
                 status, finished, res>>

NextSetup == SetVariable

SpecSetup == InitSetup /\ [][NextSetup]_vars

\* ------------------------------------------------------------------ main
\* main(targets) of a build description, with the command line parsed.

\* Target names that can be given on the command line.
RequestedNames == {"x", "y", "z"}

\* known_targets as the first loop of main builds it: name -> PhonyTarget.
\* The loop raises at the first name it has already stored.
HasDuplicate == \E i, j \in DOMAIN registered : i < j /\ name[registered[i]] = name[registered[j]]
IsKnown(n) == \E i \in DOMAIN registered : name[registered[i]] = n
Known(n) == registered[CHOOSE i \in DOMAIN registered : name[registered[i]] = n]

\* Command lines: up to two target names, -h or not, a parse error or not.
CommandLines ==
  {[variables |-> <<>>, targets |-> ts, print_help |-> h, error |-> e] :
     ts \in UNION {[1..k -> RequestedNames] : k \in 0..2},
     h \in BOOLEAN, e \in {None, Some("invalid")}}

InitMain ==
  \E line \in CommandLines, reg \in UNION {[1..k -> PhonyNodes] : k \in 0..2},
     nm \in [PhonyNodes -> {"x", "y"}], dx \in DependsOf("x", 1) :
    /\ ARGS = line
    /\ registered = reg
    /\ name = nm
    /\ depends = [t \in Nodes |-> IF t = "x" THEN dx ELSE <<>>]
    /\ cmd = [f |-> None, a |-> Some(CmdOutput), b |-> Some(CmdOutput),
              x |-> Some(CmdA), y |-> Some(CmdA)]
    /\ output = [a |-> "p", b |-> "q"]
    /\ variables = RunVariables
    /\ targets = <<>>
    /\ jobs = 0
    /\ fs = FreshFs
    /\ now = 1
    /\ pc = "main"
    /\ dependants = <<>>
    /\ leafs = <<>>
    /\ deps_left = <<>>
    /\ modified_times = <<>>
    /\ pool = <<>>
    /\ futures = {}
    /\ done = {}
    /\ err = None
    /\ status = None
    /\ finished = [t \in Nodes |-> 0]
    /\ res = None
    /\ kwargs = None
    /\ walk = None

\* main, up to its call of run: a PymkException raised here is caught by
\* nobody and ends the program with a traceback; exit_help prints the
\* usage text and exits with 2 when it is given an error, with 0 otherwise.
Main ==
  /\ pc = "main"
  /\ IF HasDuplicate
     THEN /\ pc' = "crashed"
          /\ err' = Some(PymkException("Duplicate", <<>>, <<>>))
          /\ UNCHANGED <<status, targets>>
     ELSE IF registered = <<>>
     THEN /\ pc' = "crashed"
          /\ err' = Some(PymkException("Empty", <<>>, <<>>))
          /\ UNCHANGED <<status, targets>>
     ELSE IF ARGS.error # None
     THEN pc' = "usage" /\ status' = Some(2) /\ UNCHANGED <<err, targets>>
     ELSE IF ARGS.print_help \/ ARGS.targets = <<>>
     THEN pc' = "usage" /\ status' = Some(0) /\ UNCHANGED <<err, targets>>
     ELSE IF \E i \in DOMAIN ARGS.targets : ~IsKnown(ARGS.targets[i])
     THEN pc' = "usage" /\ status' = Some(2) /\ UNCHANGED <<err, targets>>
     ELSE /\ pc' = "start"
          /\ targets' = [i \in DOMAIN ARGS.targets |-> Known(ARGS.targets[i])]
          /\ UNCHANGED <<err, status>>
  /\ UNCHANGED <<depends, cmd, output, variables, jobs, ARGS, registered, name, kwargs, walk, fs,
                 now, dependants, leafs, deps_left, modified_times, pool, futures, done,
                 finished, res>>

NextMain == Main \/ Next

SpecMain == InitMain /\ [][NextMain]_vars

\* ------------------------------------------ graph construction by steps
\* build_execution_dag followed one turn of its "while q" loop at a time,
\* on every acyclic and cyclic graph within the bounds.

DagScenarios ==
  {sc \in {[depends |-> g, targets |-> ts, output |-> [a |-> "p", b |-> "q"],
            cmd |-> [f |-> None, a |-> Some(CmdOutput), b |-> Some(CmdOutput),
                     x |-> None, y |-> None],
            fs |-> FreshFs, jobs |-> 0] :
             g \in Graphs(MaxDeps, MaxEdges) \cup CyclicGraphs(MaxDeps, MaxEdges),
             ts \in {<<"x">>, <<"x", "x">>, <<"x", "y">>, <<"y", "x">>}} :
     Plain(sc)}

\* The number of occurrences of n in the sequence s.
Occurrences(n, s) == Cardinality({i \in DOMAIN s : s[i] = n})

\* q = deque(targets), dag = defaultdict(list), seen = set(), leafs = [];
\* enqueued[n] counts the q.append(n) calls and pops the q.pop() calls.
InitDag ==
  \E sc \in DagScenarios :
    /\ depends = sc.depends
    /\ cmd = sc.cmd
    /\ output = sc.output
    /\ variables = RunVariables
    /\ targets = sc.targets
    /\ jobs = sc.jobs
    /\ fs = sc.fs
    /\ now = 1
    /\ pc = "dag"
    /\ dependants = <<>>
    /\ leafs = <<>>
    /\ deps_left = <<>>
    /\ modified_times = <<>>
    /\ pool = <<>>
    /\ futures = {}
    /\ done = {}
    /\ err = None
    /\ status = None
    /\ finished = [t \in Nodes |-> 0]
    /\ res = None
    /\ ARGS = NoArguments
    /\ registered = <<>>
    /\ name = OwnNames
    /\ kwargs = None
    /\ walk = [st |-> [q |-> sc.targets, dag |-> <<>>, seen |-> {}, leafs |-> <<>>],
               enqueued |-> [n \in Nodes |-> 0],
               pops |-> 0]

\* One turn of "while q": what the turn appended to q is what lies past
\* the elements left after the pop.
Pop ==
  /\ pc = "dag"
  /\ walk.st.q # <<>>
  /\ walk.pops < MaxPops
  /\ LET st == WalkStep(walk.st)
         appended == SubSeq(st.q, Len(walk.st.q), Len(st.q))
     IN  walk' = [st |-> st,
                  enqueued |-> [n \in Nodes |-> walk.enqueued[n] + Occurrences(n, appended)],
                  pops |-> walk.pops + 1]
  /\ UNCHANGED <<depends, cmd, output, variables, targets, jobs, ARGS, registered, name,
                 kwargs, fs, now, pc, dependants, leafs, deps_left, modified_times, pool,
                 futures, done, err, status, finished, res>>

\* "return dag, leafs" once q is empty.
Built ==
  /\ pc = "dag"
  /\ walk.st.q = <<>>
  /\ pc' = "built"
  /\ dependants' = walk.st.dag
  /\ leafs' = walk.st.leafs
  /\ UNCHANGED <<Config, fs, now, deps_left, modified_times, pool, futures, done, err,
                 status, finished, res>>

NextDag == Pop \/ Built

\* The loop runs in the calling thread, which keeps taking steps.
SpecDag == InitDag /\ [][NextDag]_vars /\ WF_vars(NextDag)

\* ---------------------------------------------------------------- claims
\* How many times the command of t was handed to the worker pool.
Dispatches(t) == Cardinality({i \in DOMAIN pool : pool[i].t = t})

\* The nodes reachable from the requested targets.
Reachable == ReachableIn(depends, Range(targets))

Returned == pc = "done"

\* C1: in one run the command of every node is dispatched at most once,
\* whatever the graph and the list of requested targets.
AtMostOnce == \A t \in Nodes : Dispatches(t) <= 1

\* C2: a node's command is dispatched only after every dependency in each
\* of its groups has finished.
DependencyOrder == \A i \in DOMAIN pool : pool[i].unfinished = {}

\* Every command that ran succeeded and every Target's command wrote its
\* output, and the file dependency is there if the run needs it.
AllWentWell ==
  /\ \A i \in DOMAIN pool :
       Completed(i) => pool[i].st = "returned" /\ (IsTarget(pool[i].t) => pool[i].made)
  /\ \A t \in Reachable \cap PathNodes : fs[t] # 0

\* C3: when run returns 0 after commands that all succeeded, every
\* reachable node has finished and every reachable alias with a command
\* and every reachable Target whose output was missing has been executed.
SuccessComplete ==
  (Returned /\ status = Some(0) /\ AllWentWell) =>
     \A t \in Reachable :
       /\ finished[t] >= 1
       /\ (IsPhony(t) /\ cmd[t] # None /\ cmd[t] # Some(<<>>)) => Dispatches(t) >= 1

\* t became Ready in this step: its pending counter reached zero.
BecomesReady(t) ==
  /\ t \in DOMAIN deps_left'
  /\ deps_left'[t] = 0
  /\ ~(t \in DOMAIN deps_left /\ deps_left[t] = 0)

\* The step finished t without handing its command to the pool.
Skipped(t) == Dispatches(t)' = Dispatches(t) /\ finished'[t] = finished[t] + 1

\* The step handed t's command to the pool and did not finish t.
Dispatched(t) == Dispatches(t)' = Dispatches(t) + 1 /\ finished'[t] = finished[t]

\* The output of t exists, no direct dependency is a PhonyTarget, and the
\* file of every direct dependency is at most as new as the output.
Fresh(t) ==
  /\ fs[output[t]] # 0
  /\ \A d \in Range(AllDeps(t)) :
       /\ ~IsPhony(d)
       /\ modified_time(d) <= fs[output[t]]

\* C4: a Target with at least one dependency that becomes Ready is skipped
\* (finished without being dispatched) if and only if its output exists, no
\* direct dependency is a PhonyTarget and every direct dependency's
\* modification time is at most the output's.
IncrementalSkip ==
  [][\A t \in TargetNodes :
       (TotalDeps(t) >= 1 /\ BecomesReady(t)) => (Skipped(t) <=> Fresh(t))]_vars

\* A Target with dependencies was skipped although one of its dependencies
\* is exactly as old as its output.
IncrementalSkipWitness ==
  \E t \in TargetNodes :
    /\ TotalDeps(t) >= 1
    /\ finished[t] >= 1
    /\ Dispatches(t) = 0
    /\ \E d \in Range(AllDeps(t)) : modified_time(d) = fs[output[t]]

\* C5: a Target without dependencies is never taken as up to date: once
\* it has been Ready its command has been dispatched.
ZeroDepsAlwaysRuns ==
  \A t \in TargetNodes : (TotalDeps(t) = 0 /\ finished[t] >= 1) => Dispatches(t) >= 1

\* C6: Targets with equal output paths are one node: the command for an
\* output path is dispatched at most once.
OneCommandPerOutput ==
  \A file \in OutputPaths :
    Cardinality({i \in DOMAIN pool : IsTarget(pool[i].t) /\ output[pool[i].t] = file}) <= 1

\* C7: once a failure is recorded no dependant of the failed node has run
\* or will run, and run returns 1.
FailureStopsDependants ==
  err # None =>
    /\ \A t \in Nodes : err[1].node \in Range(AllDeps(t)) => Dispatches(t) = 0
    /\ Returned => status = Some(1)

RECURSIVE Placeholders(_, _)
\* The names VAR_SUBST_REGEX.sub hands to get_variable for the text s from
\* position i on, the escape "$$" left out.
Placeholders(s, i) ==
  IF i > Len(s) THEN {}
  ELSE LET m == IF s[i] = "$" THEN VAR_SUBST_REGEX(s, i) ELSE 0
       IN  IF m = 0 THEN Placeholders(s, i + 1)
           ELSE ({StripBrackets(SubSeq(s, i + 1, i + m))} \ {<<"$">>})
                  \cup Placeholders(s, i + m + 1)

HasCommand(t) == cmd[t] # None /\ cmd[t] # Some(<<>>)

\* The placeholder names of t's template that are neither OUTPUT on a
\* Target, nor a group of t, nor in the store.
UnresolvedNames(t) ==
  IF ~HasCommand(t) THEN {}
  ELSE {n \in Placeholders(cmd[t][1], 1) :
          /\ ~(n = OUTPUT /\ IsTarget(t))
          /\ ~HasGroup(t, n)
          /\ n \notin DOMAIN variables}

\* No reachable node has groups that are all empty.
NoEmptyGroups == \A t \in Reachable : depends[t] = <<>> \/ TotalDeps(t) > 0

\* C8 as stated: a reachable node whose template has an unresolvable
\* placeholder makes run return a nonzero status.  (Taken for nodes that
\* do get Ready: Targets with dependencies and aliases, in graphs without
\* empty groups.)
UnsetAlwaysFailsRun ==
  \A t \in Reachable :
    (UnresolvedNames(t) # {} /\ NoEmptyGroups /\ (IsTarget(t) => TotalDeps(t) >= 1)) =>
       (Returned => status # Some(0))

\* C8, amended: a node whose template has an unresolvable placeholder and
\* whose command is dispatched is never printed nor executed, its worker
\* raises the unset-variable error naming such a placeholder, and run does
\* not return 0.
UnsetFailsWhenDispatched ==
  \A i \in DOMAIN pool :
    UnresolvedNames(pool[i].t) # {} =>
      /\ pool[i].printed = None /\ pool[i].st # "returned" /\ ~pool[i].made
      /\ Completed(i) =>
           /\ pool[i].exc # None
           /\ pool[i].exc[1].kind = "Unset"
           /\ pool[i].exc[1].node = pool[i].t
           /\ pool[i].exc[1].var \in UnresolvedNames(pool[i].t)
      /\ Returned => status = Some(1)

\* A command with an unset variable was dispatched, its error was the one
\* run reported, and run returned 1.
UnsetFailsWitness ==
  \E i \in DOMAIN pool :
    /\ UnresolvedNames(pool[i].t) # {}
    /\ Completed(i)
    /\ err = pool[i].exc
    /\ Returned /\ status = Some(1)

\* What the resolution rules give for the name n on node t: OUTPUT on a
\* Target is its output path; otherwise a group named n is the texts of
\* its dependencies joined by spaces; otherwise the store's value;
\* otherwise the unset-variable error.
Resolved(t, n) ==
  IF n = OUTPUT /\ IsTarget(t) THEN Value(<<output[t]>>)
  ELSE IF \E i \in DOMAIN depends[t] : depends[t][i].name = n
       THEN LET g == depends[t][CHOOSE i \in DOMAIN depends[t] : depends[t][i].name = n].deps
            IN  Value(Join([k \in DOMAIN g |-> IF IsTarget(g[k]) THEN <<output[g[k]]>> ELSE <<g[k]>>]))
  ELSE IF n \in DOMAIN variables THEN Value(variables[n])
  ELSE Unset(n)

\* C9: expand_cmd resolves a placeholder by the first rule that applies:
\* OUTPUT on a Target, then a dependency group of the node, then the
\* store, then the unset-variable error.
ResolutionOrder ==
  pc = "expanded" =>
    \A t \in Nodes, n \in {NameA, OUTPUT, DefaultKey} :
      cmd[t] = Some(Bare(n)) => res = Some(Resolved(t, n))

\* "$OUTPUT" was expanded on a Target that has a group and a variable of
\* that name, and "$A" on a node with a group and a variable named A.
ResolutionOrderWitness ==
  /\ pc = "expanded"
  /\ \E t \in Nodes :
       \/ /\ cmd[t] = Some(Bare(OUTPUT)) /\ IsTarget(t)
          /\ HasGroup(t, OUTPUT) /\ Group(t, OUTPUT) = <<"f", "f">>
          /\ OUTPUT \in DOMAIN variables
          /\ res = Some(Value(<<"p">>))

\* The concatenation of three expansion results: the first error wins.
Cat3(u, v, w) ==
  IF ~u.ok THEN u ELSE IF ~v.ok THEN v ELSE IF ~w.ok THEN w
  ELSE Value(u.text \o v.text \o w.text)

AllWord(w) == w # <<>> /\ \A k \in DOMAIN w : IsWord(w[k])
NoDollar(w) == \A k \in DOMAIN w : w[k] # "$"
EndsName(post) == post = <<>> \/ ~IsWord(post[1])

\* C10: for a name n of word characters the forms $n, $(n) and ${n}
\* expand to the same text; a placeholder ends at the first non-word
\* character and the text around it is kept; "$$" gives one "$" and the
\* text after it is expanded on its own.
PlaceholderForms ==
  pc = "expanded" =>
    \A t \in Nodes :
      cmd[t] # None =>
        LET s == cmd[t][1]
        IN  \A i \in 0..Len(s), j \in 1..Len(s) :
              (i < j /\ s[i + 1] = "$" /\ NoDollar(SubSeq(s, 1, i))) =>
                LET pre == SubSeq(s, 1, i)
                    ph == SubSeq(s, i + 1, j)
                    post == SubSeq(s, j + 1, Len(s))
                    mid == SubSeq(s, i + 3, j - 1)
                IN  /\ (ph = <<"$", "$">>) =>
                          res = Some(Cat3(Value(pre), Value(<<"$">>), ExpandText(t, post)))
                    /\ (AllWord(Tail(ph)) /\ EndsName(post)) =>
                          /\ res = Some(Cat3(Value(pre), Resolved(t, Tail(ph)), ExpandText(t, post)))
                          /\ res = Some(ExpandText(t, pre \o Paren(Tail(ph)) \o post))
                          /\ res = Some(ExpandText(t, pre \o Brace(Tail(ph)) \o post))
                    /\ (AllWord(mid) /\ ph \in {Paren(mid), Brace(mid)}) =>
                          /\ res = Some(Cat3(Value(pre), Resolved(t, mid), ExpandText(t, post)))
                          /\ EndsName(post) => res = Some(ExpandText(t, pre \o Bare(mid) \o post))

\* "${A}" was expanded to the value of A, and "$$A" to "$A".
PlaceholderFormsWitness ==
  /\ pc = "expanded"
  /\ \E t \in Nodes :
       /\ cmd[t] = Some(Brace(NameA))
       /\ ~HasGroup(t, NameA)
       /\ NameA \in DOMAIN variables
       /\ res = Some(Value(variables[NameA]))

\* C11: a name given with -D keeps the value given there through every
\* set_variable call, and a call changes only names not given with -D.
ExternalOverridePrecedence ==
  [][/\ \A n \in DOMAIN ARGS.variables :
          n \in DOMAIN variables' /\ variables'[n] = ARGS.variables[n]
     /\ \A n \in DOMAIN variables' :
          (n \notin DOMAIN variables \/ variables'[n] # variables[n]) =>
             n \notin DOMAIN ARGS.variables]_vars

\* set_variable was called with another value for a name given with -D and
\* with a name not given there, which it wrote.
ExternalOverrideWitness ==
  /\ kwargs # None
  /\ \E n \in DOMAIN kwargs[1] \cap DOMAIN ARGS.variables : kwargs[1][n] # ARGS.variables[n]
  /\ \E n \in DOMAIN kwargs[1] \ DOMAIN ARGS.variables : variables[n] = kwargs[1][n]

\* The step is the leaf loop's run_target on a Path that is not on disk.
RunsAbsentPath ==
  /\ pc = "leafs"
  /\ leafs' # leafs
  /\ IsPath(Head(leafs))
  /\ fs[Head(leafs)] = 0

\* The step is on_finished for the i-th Future, whose Target's command
\* returned while the output is not on disk.
FinishesWithoutOutput(i) ==
  /\ pc = "process"
  /\ i \in done
  /\ i \notin done'
  /\ pool[i].st = "returned"
  /\ IsTarget(pool[i].t)
  /\ fs[output[pool[i].t]] = 0

\* C12: a Path that is absent when run_target takes it, and a Target whose
\* command succeeded without its output being there, fail instead of
\* finishing: the error is raised, the node is not counted as finished, no
\* pending counter changes, and run returns 1.
ExistenceRequired ==
  [][/\ RunsAbsentPath =>
          /\ err' = Some(PymkException("NoFile", Head(leafs), <<>>))
          /\ finished' = finished
          /\ deps_left' = deps_left
          /\ pc' = "shutdown"
     /\ \A i \in DOMAIN pool :
          FinishesWithoutOutput(i) =>
             /\ err' = Some(PymkException("Expected", pool[i].t, <<>>))
             /\ finished' = finished
             /\ deps_left' = deps_left
             /\ pc' = "shutdown"
     /\ (err # None /\ err[1].kind \in {"NoFile", "Expected"}) =>
          /\ err' = err
          /\ pc' \in {"shutdown", "done"}
          /\ pc' = "done" => status' = Some(1)]_vars

\* run returned 1 because a Target's command succeeded without writing
\* its output; the Target has a dependant and is not counted as finished.
ExistenceRequiredWitness ==
  /\ pc = "done"
  /\ status = Some(1)
  /\ \E i \in DOMAIN pool :
       /\ pool[i].st = "returned"
       /\ err = Some(PymkException("Expected", pool[i].t, <<>>))
       /\ pool[i].t \in DOMAIN dependants
       /\ finished[pool[i].t] = 0

\* C13: build_execution_dag puts every reachable node without a non-empty
\* dependency group in the leaf list it returns.
LeafRule ==
  [][(pc = "start" /\ pc' # "start") =>
        \A t \in Reachable : TotalDeps(t) = 0 => t \in Range(leafs')]_vars

\* C14: with a cycle under the requested targets no node on the cycle has
\* its pending counter reach zero, and run does not return 0.
CyclesStall ==
  /\ \A t \in Reachable :
       OnCycle(depends, t) => ~(t \in DOMAIN deps_left /\ deps_left[t] = 0)
  /\ ~(pc = "done" /\ status = Some(0))

\* C15: when two registered PhonyTargets have the same name, or a
\* requested name is not registered, main ends with the usage text and
\* exit code 2 and no command has been submitted.  (Taken for command
\* lines without -h and without a parse error.)
ConfigErrorsRunNothing ==
  (/\ pc # "main"
   /\ ARGS.error = None /\ ~ARGS.print_help /\ ARGS.targets # <<>>
   /\ HasDuplicate \/ (registered # <<>> /\ \E i \in DOMAIN ARGS.targets : ~IsKnown(ARGS.targets[i])))
    => (pc = "usage" /\ status = Some(2) /\ pool = <<>>)

\* How many of t's dependency occurrences are of a node that has finished.
FinishedOccurrences(t) ==
  Cardinality({i \in DOMAIN AllDeps(t) : finished[AllDeps(t)[i]] >= 1})

\* C16: every initialized pending counter equals the number of the node's
\* dependency occurrences minus those whose dependency has finished; it is
\* never negative, and the node has been run exactly when it is zero.
PendingCounter ==
  \A t \in DOMAIN deps_left :
    /\ deps_left[t] = TotalDeps(t) - FinishedOccurrences(t)
    /\ deps_left[t] >= 0
    /\ (deps_left[t] = 0) <=> (finished[t] >= 1 \/ Dispatches(t) >= 1)

\* How often x occurs in the sequence l.
Count(l, x) == Cardinality({i \in DOMAIN l : l[i] = x})

\* C17: build_execution_dag records a reachable node t in the reverse
\* index of d as often as d occurs in t's dependency groups, and returns
\* every reachable Path and node without groups once in the leaf list.
ReverseIndexExact ==
  [][(pc = "start" /\ pc' # "start") =>
        /\ \A t \in Reachable, d \in Nodes :
             Count(IF d \in DOMAIN dependants' THEN dependants'[d] ELSE <<>>, t)
               = Count(AllDeps(t), d)
        /\ \A t \in Reachable : (IsPath(t) \/ depends[t] = <<>>) => Count(leafs', t) = 1]_vars

\* The coordinator took the i-th Future's result in its completion loop.
Processed(i) == i \notin futures /\ i \notin done

DependenciesFinished(t) == \A d \in Range(AllDeps(t)) : finished[d] >= 1

\* C19: while the coordinator waits for outstanding work, every reachable
\* node whose dependencies have all finished has been dispatched or has
\* finished.
NoReadyHeldBack ==
  (pc = "wait" /\ futures # {}) =>
    \A t \in Reachable :
      DependenciesFinished(t) => (finished[t] >= 1 \/ Dispatches(t) >= 1)

\* The command of Target d ran in this run and left an output newer than
\* the existing output of t.
RanNewer(t, d) ==
  /\ IsTarget(d)
  /\ fs[output[t]] # 0
  /\ fs[output[d]] > fs[output[t]]
  /\ \E i \in DOMAIN pool : pool[i].t = d /\ pool[i].made

\* C20: when a Target becomes Ready and the command of one of its direct
\* dependencies ran in this run and left an output newer than the
\* Target's own, the Target's command is dispatched.
LazyStaleness ==
  [][\A t \in TargetNodes :
       (BecomesReady(t) /\ \E d \in Range(AllDeps(t)) : RanNewer(t, d)) => Dispatched(t)]_vars

\* C21: the value stored for a name is the value of the first write to
\* it: a name that has a value keeps it through every later set_variable
\* call.
FirstWriterWins ==
  [][\A n \in DOMAIN variables :
       n \in DOMAIN variables' /\ variables'[n] = variables[n]]_vars

\* A node on a dependency cycle under the requested targets was queued
\* and expanded, and graph construction has returned.
DagTerminatesWitness ==
  /\ pc = "built"
  /\ \E n \in Nodes :
       /\ OnCycle(depends, n)
       /\ walk.enqueued[n] = 1
       /\ n \in DOMAIN dependants
       /\ Len(dependants[n]) > 1

\* C22: on every finite graph, with or without dependency cycles,
\* build_execution_dag appends each node to the queue at most once as a
\* dependency, pops at most once per requested target and per node, and
\* returns.
DagTerminates ==
  /\ [](\A n \in Nodes : walk.enqueued[n] <= 1)
  /\ [](walk.pops <= Len(targets) + Cardinality(Nodes))
  /\ <>(pc = "built")

====
